---- MODULE Spec2Model ----
(***************************************************************************)
(* Model of blade-graphics/src/util.rs: the texture-format capability      *)
(* table (block_info, aspects, is_srgb), the compute dispatch sizer        *)
(* (get_dispatch_for) and the cause-chain printer (print_err).             *)
(***************************************************************************)
EXTENDS Integers, Sequences, FiniteSets

VARIABLES call, args, ret, warning, pc, e, stderr

vars == <<call, args, ret, warning, pc, e, stderr>>

\* ------------------------------------------------------------------------
\* TextureFormat: the closed enumeration matched in block_info.
\* ------------------------------------------------------------------------
UncompressedFormats ==
    { "R8Unorm", "Rg8Unorm", "Rg8Snorm", "Rgba8Unorm", "Rgba8UnormSrgb",
      "Bgra8Unorm", "Bgra8UnormSrgb", "Rgba8Snorm", "R16Float", "Rg16Float",
      "Rgba16Float", "R32Float", "Rg32Float", "Rgba32Float", "R32Uint",
      "Rg32Uint", "Rgba32Uint", "Depth32Float", "Depth32FloatStencil8Uint",
      "Stencil8Uint", "Rgb10a2Unorm", "Rg11b10Ufloat", "Rgb9e5Ufloat" }

BcFormats ==
    { "Bc1Unorm", "Bc1UnormSrgb", "Bc2Unorm", "Bc2UnormSrgb", "Bc3Unorm",
      "Bc3UnormSrgb", "Bc4Unorm", "Bc4Snorm", "Bc5Unorm", "Bc5Snorm",
      "Bc6hUfloat", "Bc6hFloat", "Bc7Unorm", "Bc7UnormSrgb" }

TextureFormat == UncompressedFormats \cup BcFormats

\* fn uncompressed(size) inside block_info
uncompressed(size) == [dimensions |-> <<1, 1>>, size |-> size]

\* cx_bc with the block of an uncompressed format
cx_bc_one_texel(size) == [dimensions |-> <<1, 1>>, size |-> size]

\* fn cx_bc(size) inside block_info
cx_bc(size) == [dimensions |-> <<4, 4>>, size |-> size]

\* TextureFormat::block_info, the match arms in source order
block_info(f) ==
    CASE f = "R8Unorm" -> uncompressed(1)
      [] f = "Rg8Unorm" -> uncompressed(2)
      [] f = "Rg8Snorm" -> uncompressed(2)
      [] f = "Rgba8Unorm" -> uncompressed(4)
      [] f = "Rgba8UnormSrgb" -> uncompressed(4)
      [] f = "Bgra8Unorm" -> uncompressed(4)
      [] f = "Bgra8UnormSrgb" -> uncompressed(4)
      [] f = "Rgba8Snorm" -> uncompressed(4)
      [] f = "R16Float" -> uncompressed(2)
      [] f = "Rg16Float" -> uncompressed(4)
      [] f = "Rgba16Float" -> uncompressed(8)
      [] f = "R32Float" -> uncompressed(4)
      [] f = "Rg32Float" -> uncompressed(8)
      [] f = "Rgba32Float" -> uncompressed(16)
      [] f = "R32Uint" -> uncompressed(4)
      [] f = "Rg32Uint" -> uncompressed(8)
      [] f = "Rgba32Uint" -> uncompressed(16)
      [] f = "Depth32Float" -> uncompressed(4)
      [] f = "Depth32FloatStencil8Uint" -> uncompressed(5)
      [] f = "Stencil8Uint" -> uncompressed(1)
      [] f = "Bc1Unorm" -> cx_bc(8)
      [] f = "Bc1UnormSrgb" -> cx_bc(8)
      [] f = "Bc2Unorm" -> cx_bc(16)
      [] f = "Bc2UnormSrgb" -> cx_bc(16)
      [] f = "Bc3Unorm" -> cx_bc(16)
      [] f = "Bc3UnormSrgb" -> cx_bc(16)
      [] f = "Bc4Unorm" -> cx_bc(8)
      [] f = "Bc4Snorm" -> cx_bc(8)
      [] f = "Bc5Unorm" -> cx_bc(16)
      [] f = "Bc5Snorm" -> cx_bc(16)
      [] f = "Bc6hUfloat" -> cx_bc(16)
      [] f = "Bc6hFloat" -> cx_bc(16)
      [] f = "Bc7Unorm" -> cx_bc(16)
      [] f = "Bc7UnormSrgb" -> cx_bc(16)
      [] f = "Rgb10a2Unorm" -> uncompressed(4)
      [] f = "Rg11b10Ufloat" -> uncompressed(4)
      [] f = "Rgb9e5Ufloat" -> uncompressed(4)

\* log::warn! side effect of block_info: the message logged, "" when none
block_info_warning(f) ==
    CASE f = "Depth32FloatStencil8Uint" ->
           "Requested 'block_info' on depth-stencil format, information most likely incorrect"
      [] f = "Stencil8Uint" ->
           "Requested 'block_info' on stencil format, information most likely incorrect"
      [] OTHER -> ""

\* is_srgb with Bc7UnormSrgb in the false arm
is_srgb_without_bc7(f) ==
    f \in { "Rgba8UnormSrgb", "Bgra8UnormSrgb", "Bc1UnormSrgb", "Bc2UnormSrgb",
            "Bc3UnormSrgb" }

\* TextureFormat::is_srgb: the false arm, then the true arm
is_srgb(f) ==
    CASE f \in { "R8Unorm", "Rg8Unorm", "Rg8Snorm", "Rgba8Unorm", "Bgra8Unorm",
                 "Rgba8Snorm", "R16Float", "Rg16Float", "Rgba16Float",
                 "R32Float", "Rg32Float", "Rgba32Float", "R32Uint", "Rg32Uint",
                 "Rgba32Uint", "Depth32Float", "Depth32FloatStencil8Uint",
                 "Stencil8Uint", "Bc1Unorm", "Bc2Unorm", "Bc3Unorm", "Bc4Unorm",
                 "Bc4Snorm", "Bc5Unorm", "Bc5Snorm", "Bc6hUfloat", "Bc6hFloat",
                 "Bc7Unorm", "Rgb10a2Unorm", "Rg11b10Ufloat", "Rgb9e5Ufloat" }
             -> FALSE
      [] f \in { "Bc7UnormSrgb", "Rgba8UnormSrgb", "Bgra8UnormSrgb",
                 "Bc1UnormSrgb", "Bc2UnormSrgb", "Bc3UnormSrgb" }
             -> TRUE

\* depth_stencil_color without the union on the combined format
depth_stencil_color_depth_only(f) ==
    CASE f = "Depth32Float" -> {"DEPTH"}
      [] f = "Depth32FloatStencil8Uint" -> {"DEPTH"}
      [] f = "Stencil8Uint" -> {"STENCIL"}
      [] OTHER -> {"COLOR"}

\* TextureFormat::depth_stencil_color
depth_stencil_color(f) ==
    CASE f = "Depth32Float" -> {"DEPTH"}
      [] f = "Depth32FloatStencil8Uint" -> {"DEPTH"} \cup {"STENCIL"}
      [] f = "Stencil8Uint" -> {"STENCIL"}
      [] OTHER -> {"COLOR"}

\* TextureFormat::float_int_uint: the INT arm, the UINT arm, the FLOAT arm
float_int_uint(f) ==
    CASE f \in { "Rg8Snorm", "Rgba8Snorm", "R32Uint", "Rg32Uint", "Rgba32Uint",
                 "Stencil8Uint", "Bc4Snorm", "Bc5Snorm" }
             -> {"INT"}
      [] f \in { "R8Unorm", "Rg8Unorm", "Rgba8Unorm", "Rgba8UnormSrgb",
                 "Bgra8Unorm", "Bgra8UnormSrgb", "Bc1Unorm", "Bc1UnormSrgb",
                 "Bc2Unorm", "Bc2UnormSrgb", "Bc3Unorm", "Bc3UnormSrgb",
                 "Bc4Unorm", "Bc5Unorm", "Bc7Unorm", "Bc7UnormSrgb" }
             -> {"UINT"}
      [] f \in { "R16Float", "Rg16Float", "Rgba16Float", "R32Float",
                 "Rg32Float", "Rgba32Float", "Depth32Float",
                 "Depth32FloatStencil8Uint", "Bc6hUfloat", "Bc6hFloat",
                 "Rgb10a2Unorm", "Rg11b10Ufloat", "Rgb9e5Ufloat" }
             -> {"FLOAT"}

\* aspects without the union of float_int_uint
aspects_without_numeric(f) ==
    LET a1 == {} \cup depth_stencil_color(f)
    IN  IF is_srgb(f) THEN a1 \cup {"SRGB"} ELSE a1

\* aspects with the SRGB union taken for every color format
aspects_srgb_on_color(f) ==
    LET a2 == ({} \cup depth_stencil_color(f)) \cup float_int_uint(f)
    IN  IF "COLOR" \in a2 THEN a2 \cup {"SRGB"} ELSE a2

\* TextureFormat::aspects: empty(), two unions, the conditional SRGB union
aspects(f) ==
    LET a0 == {}
        a1 == a0 \cup depth_stencil_color(f)
        a2 == a1 \cup float_int_uint(f)
    IN  IF is_srgb(f) THEN a2 \cup {"SRGB"} ELSE a2

\* ------------------------------------------------------------------------
\* u32 arithmetic.  A u32 is kept as two 16-bit limbs [hi, lo], its value
\* being hi * 2^16 + lo, so that every intermediate stays a small integer.
\* ------------------------------------------------------------------------
Limb == 2^16

U32(hi, lo) == [hi |-> hi, lo |-> lo]

U32Zero == U32(0, 0)

U32One == U32(0, 1)

U32Max == U32(Limb - 1, Limb - 1)

\* u32 `+`: the wrapped sum and whether the true sum left the u32 range
add_u32(a, b) ==
    LET lo == a.lo + b.lo
        hi == a.hi + b.hi + (lo \div Limb)
    IN  [overflow |-> hi >= Limb, val |-> U32(hi % Limb, lo % Limb)]

\* u32 `-`: the wrapped difference and whether the true difference is negative
sub_u32(a, b) ==
    LET borrow == IF a.lo < b.lo THEN 1 ELSE 0
        lo == a.lo + borrow * Limb - b.lo
        hi == a.hi - b.hi - borrow
    IN  [overflow |-> hi < 0, val |-> U32((hi + Limb) % Limb, lo)]

\* `/` that yields 0 on a zero divisor instead of panicking
div_u32_zero_quotient(a, b) ==
    IF b = U32Zero
    THEN [fault |-> FALSE, val |-> U32Zero]
    ELSE [fault |-> FALSE,
          val |-> U32(a.hi \div b.lo, ((a.hi % b.lo) * Limb + a.lo) \div b.lo)]

\* u32 `/` by a non-zero divisor below 2^15 (long division over the limbs);
\* a zero divisor always panics ("attempt to divide by zero")
div_u32(a, b) ==
    IF b = U32Zero
    THEN [fault |-> TRUE, val |-> U32Zero]
    ELSE LET qhi == a.hi \div b.lo
             r   == a.hi % b.lo
             qlo == (r * Limb + a.lo) \div b.lo
         IN  [fault |-> FALSE, val |-> U32(qhi, qlo)]

\* One element of the returned array:
\*   (extent.x + wg_size[i] - 1) / wg_size[i]
\* overflow_checks is the build's setting: with it `+` and `-` panic when they
\* overflow, without it they wrap.
dispatch_axis(extent, wg, overflow_checks) ==
    LET s   == add_u32(extent, wg)
        d   == sub_u32(s.val, U32One)
        q   == div_u32(d.val, wg)
    IN  IF overflow_checks /\ s.overflow THEN [fault |-> "overflow", val |-> U32Zero]
        ELSE IF overflow_checks /\ d.overflow THEN [fault |-> "overflow", val |-> U32Zero]
        ELSE IF q.fault THEN [fault |-> "divide_by_zero", val |-> U32Zero]
        ELSE [fault |-> "none", val |-> q.val]

\* ComputePipeline::get_dispatch_for: the three elements are evaluated in order
\* and the first panic ends the call
get_dispatch_for(wg_size, extent, overflow_checks) ==
    LET x == dispatch_axis(extent[1], wg_size[1], overflow_checks)
        y == dispatch_axis(extent[2], wg_size[2], overflow_checks)
        z == dispatch_axis(extent[3], wg_size[3], overflow_checks)
    IN  IF x.fault # "none" THEN [fault |-> x.fault, counts |-> <<>>]
        ELSE IF y.fault # "none" THEN [fault |-> y.fault, counts |-> <<>>]
        ELSE IF z.fault # "none" THEN [fault |-> z.fault, counts |-> <<>>]
        ELSE [fault |-> "none", counts |-> <<x.val, y.val, z.val>>]

\* ------------------------------------------------------------------------
\* Errors: an error and its causes are the sequence of their display texts,
\* c[1] the error handed to print_err, c[i+1] the source() of c[i].
\* A position is an index into the sequence, None when there is no error.
\* ------------------------------------------------------------------------
None == 0

\* Error::source of the error at position i of chain c
source(c, i) == IF i < Len(c) THEN i + 1 ELSE None

\* ------------------------------------------------------------------------
\* Bounds of the model
\* ------------------------------------------------------------------------
MaxSmall == 2

MaxWg == 2

MaxCauses == 3

\* Extents: the low end and the high end of u32, and the limb boundary
ExtentValues ==
    { U32(0, n) : n \in 0..MaxSmall }
      \cup { U32(Limb - 1, Limb - 1 - n) : n \in 0..MaxSmall }
      \cup { U32(0, 17), U32(0, Limb - 1), U32(1, 0) }

\* Workgroup sizes, 0 included
WgValues == { U32(0, n) : n \in 0..MaxWg } \cup { U32(0, 8) }

\* Display texts of errors
Texts == {"a", "b"}

\* An error with 0..MaxCauses chained causes
Chains == UNION { [1..n -> Texts] : n \in 1..(MaxCauses + 1) }

\* ------------------------------------------------------------------------
\* State: one call of one of the operations.  call and args are the operation
\* and its arguments, pc its position ("start", "loop" inside print_err's
\* loop, "done" once it returned or panicked), ret what it returned, warning
\* what it logged, stderr what it wrote, e the local of print_err.
\* ------------------------------------------------------------------------
DispatchArgs ==
    [wg_size : WgValues \X WgValues \X WgValues,
     extent : ExtentValues \X ExtentValues \X ExtentValues,
     overflow_checks : BOOLEAN]

Init ==
    /\ \/ call = "block_info" /\ args \in TextureFormat
       \/ call = "aspects" /\ args \in TextureFormat
       \/ call = "is_srgb" /\ args \in TextureFormat
       \/ call = "get_dispatch_for" /\ args \in DispatchArgs
       \/ call = "print_err" /\ args \in Chains
    /\ ret = <<>>
    /\ warning = ""
    /\ pc = "start"
    /\ e = None
    /\ stderr = <<>>

\* block_info(&self)
BlockInfo ==
    /\ call = "block_info"
    /\ pc = "start"
    /\ ret' = block_info(args)
    /\ warning' = block_info_warning(args)
    /\ pc' = "done"
    /\ UNCHANGED <<call, args, e, stderr>>

\* aspects(&self)
Aspects ==
    /\ call = "aspects"
    /\ pc = "start"
    /\ ret' = aspects(args)
    /\ pc' = "done"
    /\ UNCHANGED <<call, args, warning, e, stderr>>

\* is_srgb(&self)
IsSrgb ==
    /\ call = "is_srgb"
    /\ pc = "start"
    /\ ret' = is_srgb(args)
    /\ pc' = "done"
    /\ UNCHANGED <<call, args, warning, e, stderr>>

\* get_dispatch_for(&self, extent), self.get_workgroup_size() being wg_size
GetDispatchFor ==
    /\ call = "get_dispatch_for"
    /\ pc = "start"
    /\ ret' = get_dispatch_for(args.wg_size, args.extent, args.overflow_checks)
    /\ pc' = "done"
    /\ UNCHANGED <<call, args, warning, e, stderr>>

\* print_err up to the loop: eprint!("{}", error); e = error.source();
\* eprintln!(": ") or eprintln!()
PrintErrBegin ==
    /\ call = "print_err"
    /\ pc = "start"
    /\ e' = source(args, 1)
    /\ stderr' = IF source(args, 1) # None THEN <<args[1], ": ", "\n">>
                                            ELSE <<args[1], "\n">>
    /\ pc' = "loop"
    /\ UNCHANGED <<call, args, ret, warning>>

\* the loop pass with `e = source.source()` taken from the last error
PrintErrLoopStopsEarly ==
    /\ pc = "loop"
    /\ e # None
    /\ stderr' = stderr \o <<"\t", args[e], "\n">>
    /\ e' = source(args, Len(args))
    /\ UNCHANGED <<call, args, ret, warning, pc>>

\* one pass of `while let Some(source) = e`
PrintErrLoop ==
    /\ pc = "loop"
    /\ e # None
    /\ stderr' = stderr \o <<"\t", args[e], "\n">>
    /\ e' = source(args, e)
    /\ UNCHANGED <<call, args, ret, warning, pc>>

\* the loop's exit, e being None, and the return
PrintErrReturn ==
    /\ pc = "loop"
    /\ e = None
    /\ pc' = "done"
    /\ UNCHANGED <<call, args, ret, warning, e, stderr>>

Next ==
    \/ BlockInfo
    \/ Aspects
    \/ IsSrgb
    \/ GetDispatchFor
    \/ PrintErrBegin
    \/ PrintErrLoop
    \/ PrintErrReturn

Spec == Init /\ [][Next]_vars

\* print_err runs on once called: the thread keeps executing
FairSpec ==
    Spec /\ WF_vars(PrintErrBegin) /\ WF_vars(PrintErrLoop) /\ WF_vars(PrintErrReturn)

\* ------------------------------------------------------------------------
\* Properties
\* ------------------------------------------------------------------------
Returned(op) == call = op /\ pc = "done"

\* The product of a u32 and a workgroup size below 2^15, as the three limbs
\* <<l2, l1, l0>> of the mathematical integer
WideMul(c, w) ==
    LET pl == c.lo * w.lo
        ph == c.hi * w.lo + (pl \div Limb)
    IN  <<ph \div Limb, ph % Limb, pl % Limb>>

Wide(x) == <<0, x.hi, x.lo>>

WideLess(x, y) ==
    \/ x[1] < y[1]
    \/ x[1] = y[1] /\ x[2] < y[2]
    \/ x[1] = y[1] /\ x[2] = y[2] /\ x[3] < y[3]

Pred(c) == IF c.lo > 0 THEN U32(c.hi, c.lo - 1) ELSE U32(c.hi - 1, Limb - 1)

\* (c - 1) * w < ext <= c * w over the mathematical integers
IsCeiling(c, ext, w) ==
    /\ ~WideLess(WideMul(c, w), Wide(ext))
    /\ c = U32Zero \/ WideLess(WideMul(Pred(c), w), Wide(ext))

\* C1: with every workgroup size component > 0, get_dispatch_for returns, on
\* each axis, the ceiling of extent / workgroup size, for every u32 extent.
DispatchIsCeiling ==
    (Returned("get_dispatch_for") /\ \A i \in 1..3 : args.wg_size[i] # U32Zero)
        => /\ ret.fault = "none"
           /\ \A i \in 1..3 : IsCeiling(ret.counts[i], args.extent[i], args.wg_size[i])

\* C2: with some workgroup size component 0, get_dispatch_for ends in a fault
\* and returns no count array, whatever the extent and the build.
DispatchZeroWgFaults ==
    (Returned("get_dispatch_for") /\ \E i \in 1..3 : args.wg_size[i] = U32Zero)
        => /\ ret.fault \in {"overflow", "divide_by_zero"}
           /\ ret.counts = <<>>

\* the case of C2: extent 0 on the zero axis, in a build whose `-` wraps
DispatchZeroWgFaultsWitness ==
    /\ Returned("get_dispatch_for")
    /\ args.wg_size[1] # U32Zero
    /\ args.wg_size[2] = U32Zero
    /\ args.extent[2] = U32Zero
    /\ ~args.overflow_checks
    /\ ret.fault = "divide_by_zero"

\* C3: aspects() holds exactly one of COLOR, DEPTH, STENCIL, except for
\* Depth32FloatStencil8Uint, where it holds DEPTH and STENCIL and not COLOR.
AspectsChannelKind ==
    Returned("aspects")
        => LET kind == ret \cap {"COLOR", "DEPTH", "STENCIL"}
           IN  IF args = "Depth32FloatStencil8Uint"
               THEN kind = {"DEPTH", "STENCIL"}
               ELSE Cardinality(kind) = 1

AspectsChannelKindWitness ==
    /\ Returned("aspects")
    /\ args = "Depth32FloatStencil8Uint"
    /\ {"DEPTH", "STENCIL"} \subseteq ret
    /\ "COLOR" \notin ret

\* C4: aspects() holds exactly one of FLOAT, INT, UINT for every format.
AspectsNumericClass ==
    Returned("aspects") => Cardinality(ret \cap {"FLOAT", "INT", "UINT"}) = 1

AspectsNumericClassWitness ==
    /\ Returned("aspects")
    /\ args \in {"Depth32Float", "Depth32FloatStencil8Uint", "Stencil8Uint"}
    /\ ret \cap {"FLOAT", "INT", "UINT"} = {"INT"}

\* C5: SRGB is in aspects(f) exactly when is_srgb(f), and neither
\* depth_stencil_color nor float_int_uint contributes SRGB.
AspectsSrgbIffIsSrgb ==
    Returned("aspects")
        => /\ ("SRGB" \in ret) <=> is_srgb(args)
           /\ "SRGB" \notin depth_stencil_color(args)
           /\ "SRGB" \notin float_int_uint(args)

AspectsSrgbIffIsSrgbWitness ==
    /\ Returned("aspects")
    /\ args = "Bc7UnormSrgb"
    /\ "SRGB" \in ret

SrgbFormats ==
    { "Rgba8UnormSrgb", "Bgra8UnormSrgb", "Bc1UnormSrgb", "Bc2UnormSrgb",
      "Bc3UnormSrgb", "Bc7UnormSrgb" }

\* C6: is_srgb is true for exactly the six ...Srgb formats and false for the
\* other 31; a format whose aspects() holds SRGB holds COLOR and neither
\* DEPTH nor STENCIL.
IsSrgbExactlySix ==
    /\ Returned("is_srgb")
         => /\ ret <=> args \in SrgbFormats
            /\ Cardinality({f \in TextureFormat : is_srgb(f)}) = 6
            /\ Cardinality({f \in TextureFormat : ~is_srgb(f)}) = 31
    /\ (Returned("aspects") /\ "SRGB" \in ret)
         => /\ "COLOR" \in ret
            /\ "DEPTH" \notin ret
            /\ "STENCIL" \notin ret

IsSrgbExactlySixWitness ==
    /\ Returned("is_srgb")
    /\ args = "Bc7UnormSrgb"
    /\ ret = TRUE

\* C7: block_info returns size > 0, and dimensions (4,4) for the 14 BCn
\* formats and (1,1) for every other format.
BlockInfoDimensions ==
    Returned("block_info")
        => /\ ret.size > 0
           /\ ret.dimensions = IF args \in BcFormats THEN <<4, 4>> ELSE <<1, 1>>
           /\ Cardinality(BcFormats) = 14

BlockInfoDimensionsWitness ==
    /\ Returned("block_info")
    /\ args = "Bc6hFloat"
    /\ ret.dimensions = <<4, 4>>

\* What the report of error chain c is: the error's text, ": " when a cause
\* follows, then each cause after one tab, every line ended by a line feed
RECURSIVE CauseLines(_, _)
CauseLines(c, i) ==
    IF i > Len(c) THEN <<>> ELSE <<"\t", c[i], "\n">> \o CauseLines(c, i + 1)

ExpectedReport(c) ==
    <<c[1]>> \o (IF Len(c) > 1 THEN <<": ">> ELSE <<>>) \o <<"\n">> \o CauseLines(c, 2)

\* The number of lines written
NumLines(out) == Cardinality({k \in 1..Len(out) : out[k] = "\n"})

\* C8: print_err on an error with n causes writes exactly n+1 lines, the
\* error's text (followed by ": " when n > 0), then each cause once, in
\* order, after one tab; and it stops once a cause has no cause.
PrintErrReport ==
    /\ [](Returned("print_err")
            => /\ stderr = ExpectedReport(args)
               /\ NumLines(stderr) = Len(args)
               /\ e = None)
    /\ [](call = "print_err" => <>(pc = "done"))

PrintErrReportWitness ==
    /\ Returned("print_err")
    /\ Len(args) = 3
    /\ args[2] # args[3]
    /\ stderr = <<args[1], ": ", "\n", "\t", args[2], "\n", "\t", args[3], "\n">>

\* C9: in aspects(), the unsigned-integer storage formats carry UINT and not
\* INT, the signed-normalized formats carry INT and not UINT.
IntegerClassFollowsStorage ==
    Returned("aspects")
        => /\ args \in {"R32Uint", "Rg32Uint", "Rgba32Uint", "Stencil8Uint"}
                => ("UINT" \in ret /\ "INT" \notin ret)
           /\ args \in {"Rg8Snorm", "Rgba8Snorm", "Bc4Snorm", "Bc5Snorm"}
                => ("INT" \in ret /\ "UINT" \notin ret)

FloatNamedFormats ==
    { "R16Float", "Rg16Float", "Rgba16Float", "R32Float", "Rg32Float",
      "Rgba32Float", "Bc6hUfloat", "Bc6hFloat", "Rg11b10Ufloat", "Rgb9e5Ufloat",
      "Depth32Float", "Depth32FloatStencil8Uint" }

UnormNamedFormats ==
    { "R8Unorm", "Rg8Unorm", "Rgba8Unorm", "Rgba8UnormSrgb", "Bgra8Unorm",
      "Bgra8UnormSrgb", "Bc1Unorm", "Bc1UnormSrgb", "Bc2Unorm", "Bc2UnormSrgb",
      "Bc3Unorm", "Bc3UnormSrgb", "Bc4Unorm", "Bc5Unorm", "Bc7Unorm",
      "Bc7UnormSrgb", "Rgb10a2Unorm" }

\* C10: every floating-point and every normalized-unsigned format is FLOAT
\* in aspects().
FloatAndUnormAreFloat ==
    (Returned("aspects") /\ args \in FloatNamedFormats \cup UnormNamedFormats)
        => "FLOAT" \in ret

====
